---- MODULE Spec2Model ----
(***************************************************************************)
(* A model of one run of regrid_ll (apps/regrid_ll.c, main): command line  *)
(* checks, loading of the source and destination grids, creation of the    *)
(* temporary destination file, optional transfer of the source mask, the   *)
(* layer loop (read, collect source points, fill, interpolate, write) and  *)
(* the final rename.                                                       *)
(*                                                                         *)
(* Floats are modelled by integers: NAN stands for every non-finite value, *)
(* the finite values are 0 .. MaxVal.  Arrays are functions on 0 .. n-1,   *)
(* a NULL pointer is the empty function.                                   *)
(***************************************************************************)
EXTENDS Integers, Sequences, FiniteSets, TLC

\* largest length of the vertical dimension of the source field
MaxNk == 3
\* largest finite value an interpolation returns
MaxVal == 2

NAN == -1
NULL == << >>

isfinite(v) == v # NAN

\* a C array holding the tuple t
Arr(t) == [i \in 0 .. Len(t) - 1 |-> t[i + 1]]
\* length of a C array
Size(a) == Cardinality(DOMAIN a)
\* an array of n copies of v
Fill(n, v) == [i \in 0 .. n - 1 |-> v]

\* finite values handed back by lpi_interpolate_point()
FiniteVals == 1 .. MaxVal

\* the source layers read by ncu_readfield(), by number of points: every
\* point finite, no point finite, only point 0 finite
SrcLayers(n) ==
    {[i \in 0 .. n - 1 |-> 1 + (i % MaxVal)], Fill(n, NAN),
     [i \in 0 .. n - 1 |-> IF i = 0 THEN 1 ELSE NAN]}

\* destination grids of the model: the sign of the latitude of each point
DstGrids == {<<1, 0>>, <<-1, 1>>}

\* source grids of the model: where each point falls in the two projections
\*   "mid" - finite in both and away from both centres
\*   "cS"  - at the centre of the south projection, not finite in the north one
\*   "cN"  - at the centre of the north projection, not finite in the south one
SrcGrids == {<<"cS", "mid", "cN">>}

\* valid-layer counts found in the source grid file, by number of points
SrcMasks(n) == {Fill(n, 1), [i \in 0 .. n - 1 |-> IF i = 0 THEN 0 ELSE MaxNk]}

\* valid-layer counts found in the destination grid file
DstMasks(n) == {Fill(n, MaxNk), [i \in 0 .. n - 1 |-> IF i = 0 THEN 1 ELSE 2]}

\* hypot(xsrc_south[i], ysrc_south[i]) < POLAR_EPS, and the same in the north
polar_south(grid, i) == grid[i] = "cS"
polar_north(grid, i) == grid[i] = "cN"
\* isfinite(xsrc_south[i]) && isfinite(ysrc_south[i]), and the same in the north
finite_south(grid, i) == grid[i] # "cN"
finite_north(grid, i) == grid[i] # "cS"

\* the counters and point sets at the start of a pass over the source points
NoPoints ==
    [npoint |-> 0, npoint_south |-> 0, npoint_north |-> 0,
     have_polar_south |-> FALSE, have_polar_north |-> FALSE,
     points_south |-> << >>, points_north |-> << >>]

\* if (skipfirstlast && (i % ni_src == 0 || i % ni_src == ni_src - 1))
SkipColumn(skip, i, ni) == skip /\ (i % ni = 0 \/ i % ni = ni - 1)

\* one source point offered to the south set; near == the point is within
\* POLAR_EPS of the centre
AddSouth_always(st, i, z, near) ==
    [st EXCEPT !.have_polar_south = @ \/ near,
               !.points_south = Append(@, [i |-> i, z |-> z]),
               !.npoint_south = @ + 1]
AddSouth(st, i, z, near) ==
    IF near /\ st.have_polar_south
    THEN st
    ELSE [st EXCEPT !.have_polar_south = @ \/ near,
                    !.points_south = Append(@, [i |-> i, z |-> z]),
                    !.npoint_south = @ + 1]

AddNorth(st, i, z, near) ==
    IF near /\ st.have_polar_north
    THEN st
    ELSE [st EXCEPT !.have_polar_north = @ \/ near,
                    !.points_north = Append(@, [i |-> i, z |-> z]),
                    !.npoint_north = @ + 1]

\* body of the loop over the source points in layer kk
LayerPoint_chained(st, i, grid, mask, skip, v, kk) ==
    IF SkipColumn(skip, i, Size(grid)) THEN st
    ELSE IF mask # NULL /\ kk >= mask[i] THEN st
    ELSE IF ~isfinite(v[i]) THEN st
    ELSE IF ~finite_south(grid, i) THEN st
    ELSE LET s1 == AddSouth(st, i, v[i], polar_south(grid, i))
             s2 == IF finite_north(grid, i)
                   THEN AddNorth(s1, i, v[i], polar_north(grid, i))
                   ELSE s1
         IN  [s2 EXCEPT !.npoint = @ + 1]
LayerPoint_anyproj(st, i, grid, mask, skip, v, kk) ==
    IF SkipColumn(skip, i, Size(grid)) THEN st
    ELSE IF mask # NULL /\ kk >= mask[i] THEN st
    ELSE IF ~isfinite(v[i]) THEN st
    ELSE LET s1 == AddSouth(st, i, v[i], polar_south(grid, i))
             s2 == IF finite_north(grid, i)
                   THEN AddNorth(s1, i, v[i], polar_north(grid, i))
                   ELSE s1
         IN  [s2 EXCEPT !.npoint = @ + 1]
LayerPoint_first(st, i, grid, mask, skip, v, kk) ==
    IF SkipColumn(skip, i, Size(grid)) THEN st
    ELSE IF mask # NULL /\ kk >= mask[i] THEN st
    ELSE IF ~isfinite(v[i]) THEN st
    ELSE LET s1 == IF finite_south(grid, i)
                   THEN AddSouth(st, i, v[0], polar_south(grid, i))
                   ELSE st
             s2 == IF finite_north(grid, i)
                   THEN AddNorth(s1, i, v[0], polar_north(grid, i))
                   ELSE s1
         IN  [s2 EXCEPT !.npoint = @ + 1]
LayerPoint(st, i, grid, mask, skip, v, kk) ==
    IF SkipColumn(skip, i, Size(grid)) THEN st
    ELSE IF mask # NULL /\ kk >= mask[i] THEN st
    ELSE IF ~isfinite(v[i]) THEN st
    ELSE LET s1 == IF finite_south(grid, i)
                   THEN AddSouth(st, i, v[i], polar_south(grid, i))
                   ELSE st
             s2 == IF finite_north(grid, i)
                   THEN AddNorth(s1, i, v[i], polar_north(grid, i))
                   ELSE s1
         IN  [s2 EXCEPT !.npoint = @ + 1]

\* the loop over source points 0 .. n-1 in layer kk
RECURSIVE LayerPoints(_, _, _, _, _, _)
LayerPoints(n, grid, mask, skip, v, kk) ==
    IF n = 0 THEN NoPoints
    ELSE LayerPoint(LayerPoints(n - 1, grid, mask, skip, v, kk),
                    n - 1, grid, mask, skip, v, kk)

\* body of the loop over the source points when the mask is built
MaskPoint_index(st, i, grid, mask, skip) ==
    IF SkipColumn(skip, i, Size(grid)) THEN st
    ELSE LET s1 == AddSouth(st, i, i, polar_south(grid, i))
             s2 == AddNorth(s1, i, i, polar_north(grid, i))
         IN  [s2 EXCEPT !.npoint = @ + 1]
MaskPoint(st, i, grid, mask, skip) ==
    IF SkipColumn(skip, i, Size(grid)) THEN st
    ELSE LET s1 == AddSouth(st, i, mask[i], polar_south(grid, i))
             s2 == AddNorth(s1, i, mask[i], polar_north(grid, i))
         IN  [s2 EXCEPT !.npoint = @ + 1]

RECURSIVE MaskPoints(_, _, _, _)
MaskPoints(n, grid, mask, skip) ==
    IF n = 0 THEN NoPoints
    ELSE MaskPoint(MaskPoints(n - 1, grid, mask, skip), n - 1, grid, mask, skip)

\* if (ydst[i] > 0.0) ... interp_south ... else ... interp_north
Hemisphere_ge(lat) == IF lat >= 0 THEN "south" ELSE "north"
Hemisphere_swapped(lat) == IF lat > 0 THEN "north" ELSE "south"
Hemisphere(lat) == IF lat > 0 THEN "south" ELSE "north"

\* the point set the interpolator of a hemisphere was built from
PointsOf(st, h) == IF h = "south" THEN st.points_south ELSE st.points_north

\* what lpi_interpolate_point() can leave in p.z for a field sampled at the
\* given points: nothing finite without points, else not covered or a value
LpiField(points) ==
    IF points = << >> THEN {NAN} ELSE {NAN} \cup FiniteVals

\* the z of the point of source index c, if the set holds it
VertexZ(points, c) == {points[j].z : j \in {j \in 1 .. Len(points) : points[j].i = c}}

\* what lpi_interpolate_point() can leave in p.z for a destination point
\* lying on source point c (c < 0: on none): the z of that point if the
\* interpolator was built with it
LpiFieldAt(points, c) ==
    IF VertexZ(points, c) # {} THEN VertexZ(points, c) ELSE LpiField(points)

\* An interpolated valid-layer count is a double: fin says it is finite and
\* q is its value in units of 1 / MaskDenom
MaskDenom == 4
MaskNaN == [fin |-> FALSE, q |-> 0]
MaskVal(q) == [fin |-> TRUE, q |-> q]

\* the interpolation of the valid-layer counts: a linear interpolant stays
\* between the smallest and the largest count of the points, up to a rounding
\* error of one unit either side
LpiMask(points) ==
    IF points = << >> THEN {MaskNaN}
    ELSE LET zs == {points[j].z : j \in 1 .. Len(points)}
             lo == CHOOSE z \in zs : \A y \in zs : z <= y
             hi == CHOOSE z \in zs : \A y \in zs : z >= y
         IN  {MaskNaN} \cup {MaskVal(q) : q \in lo * MaskDenom - 1 .. hi * MaskDenom + 1}

\* the same for a destination point lying on source point c: the count of
\* that point up to the rounding error
LpiMaskAt(points, c) ==
    IF VertexZ(points, c) # {}
    THEN {MaskVal(q) : q \in UNION {z * MaskDenom - 1 .. z * MaskDenom + 1 :
                                       z \in VertexZ(points, c)}}
    ELSE LpiMask(points)

\* the conversion (int) x of C for x = a / b, b > 0: towards zero
Truncate(a, b) == IF a >= 0 THEN a \div b ELSE -((-a) \div b)

\* nkdst[i] = (int) (p.z + 0.5) for a finite p.z, else the 0 of calloc()
RoundCount_floor(p) == IF p.fin THEN p.q \div MaskDenom ELSE 0
RoundCount(p) ==
    IF p.fin THEN Truncate(2 * p.q + MaskDenom, 2 * MaskDenom) ELSE 0

\* what maskres keeps of an interpolated count
MaskClass(p) == IF ~p.fin THEN "nan" ELSE IF p.q < 0 THEN "neg" ELSE "fin"

----------------------------------------------------------------------------
(* Shapes: the dimensions of the source variable, the classification of the *)
(* two grids and the dimensions defined for the destination variable.       *)

GRIDTYPE_UNDEF == 0
GRIDTYPE_CURV == 1
GRIDTYPE_RECT == 2
GRIDTYPE_VECT == 3

\* a dimension of the source variable: "rec" is the unlimited dimension, "k"
\* the vertical one, "j" and "i" the horizontal ones
Dim(name, len) == [name |-> name, len |-> len]

\* the coordinates of a grid file: the rank of the x coordinate, and dimlen[0]
\* and dimlen[1] as the code fills them (rank 2: the dimensions of x; rank 1:
\* the length of y and the length of x)
Coord(ndims, d0, d1) == [ndims |-> ndims, dimlen |-> Arr(<<d0, d1>>)]

\* ni, nj, nij and the type of a grid
Grid(type, ni, nj, nij) == [type |-> type, ni |-> ni, nj |-> nj, nij |-> nij]
\* before the grid is read, and what a coordinate of another rank leaves
NoGrid == Grid(GRIDTYPE_UNDEF, 0, 0, 0)

\* length of the horizontal dimensions of the source variables
HLen == 2

\* dimlen_src[idx]; an index outside the array reads whatever lies there,
\* which may or may not be the length it is compared with
GarbageLens == {0, HLen}
SrcDimLen(dims, idx) == IF idx \in DOMAIN dims THEN {dims[idx].len} ELSE GarbageLens

\* lines 330-380: the grids the source coordinates c can be taken for, given
\* the dimensions of the variable; none when the code quits
ClassifySrc(c, dims) ==
    LET ns == Size(dims)
    IN  IF c.ndims = 2
        THEN {Grid(GRIDTYPE_CURV, c.dimlen[1], c.dimlen[0], c.dimlen[1] * c.dimlen[0]) :
                 m \in {m \in SrcDimLen(dims, ns - 2) \X SrcDimLen(dims, ns - 1) :
                           ~(c.dimlen[0] # m[1] \/ c.dimlen[1] # m[2])}}
        ELSE IF c.ndims = 1
        THEN UNION {IF c.dimlen[1] = m[2] /\ c.dimlen[0] = m[1]
                    THEN {Grid(GRIDTYPE_RECT, c.dimlen[1], c.dimlen[0],
                               c.dimlen[1] * c.dimlen[0])}
                    ELSE IF c.dimlen[0] = m[2] /\ c.dimlen[1] = m[2]
                    THEN {Grid(GRIDTYPE_VECT, c.dimlen[0], 0, c.dimlen[0])}
                    ELSE {} :
                       m \in SrcDimLen(dims, ns - 2) \X SrcDimLen(dims, ns - 1)}
        ELSE {NoGrid}

\* lines 435-476: the grid the destination coordinates c are taken for
ClassifyDst_rect(c) ==
    IF c.ndims = 2
    THEN Grid(GRIDTYPE_CURV, c.dimlen[1], c.dimlen[0], c.dimlen[1] * c.dimlen[0])
    ELSE IF c.ndims = 1
    THEN Grid(GRIDTYPE_RECT, c.dimlen[1], c.dimlen[0], c.dimlen[1] * c.dimlen[0])
    ELSE NoGrid
ClassifyDst(c) ==
    IF c.ndims = 2
    THEN Grid(GRIDTYPE_CURV, c.dimlen[1], c.dimlen[0], c.dimlen[1] * c.dimlen[0])
    ELSE IF c.ndims = 1
    THEN IF c.dimlen[0] # c.dimlen[1]
         THEN Grid(GRIDTYPE_RECT, c.dimlen[1], c.dimlen[0], c.dimlen[1] * c.dimlen[0])
         ELSE Grid(GRIDTYPE_VECT, c.dimlen[0], 0, c.dimlen[0])
    ELSE NoGrid

\* lines 401-410, 498-507: the type is printed, an undefined one is an error
TypeRefused(verb, g) == verb /\ g.type = GRIDTYPE_UNDEF

\* lines 537-542
NdimsDst(ns, nj_src, nj_dst) ==
    IF (nj_src = 0) = (nj_dst = 0) THEN ns
    ELSE IF nj_src > 0 THEN ns - 1
    ELSE ns + 1

\* lines 594-634: the body of the loop over the destination dimensions, for
\* dimension i; st holds isrc, nk, dimlen_dst and whether dimids_src or
\* dimlen_src was read outside the dimensions of the variable
DimStep(st, i, dims, nd, nj_src, nj_dst, ni_dst) ==
    LET named == [st EXCEPT !.oob = @ \/ st.isrc \notin DOMAIN dims]
        copied == IF st.isrc \notin DOMAIN dims
                  THEN [named EXCEPT !.isrc = @ - 1]
                  ELSE IF dims[st.isrc].name = "rec"
                  THEN [named EXCEPT !.dimlen[i] = 1, !.isrc = @ - 1]
                  ELSE [named EXCEPT !.dimlen[i] = dims[st.isrc].len,
                                     !.nk = dims[st.isrc].len,
                                     !.isrc = @ - 1]
    IN  IF i = nd - 1
        THEN [named EXCEPT !.dimlen[i] = ni_dst, !.isrc = @ - 1]
        ELSE IF i = nd - 2 /\ nj_dst > 0
        THEN [named EXCEPT !.dimlen[i] = nj_dst,
                           !.isrc = IF nj_src > 0 THEN @ - 1 ELSE @]
        ELSE copied

\* the loop from dimension i down to 0
RECURSIVE DimLoop(_, _, _, _, _, _, _)
DimLoop(st, i, dims, nd, nj_src, nj_dst, ni_dst) ==
    IF i < 0 THEN st
    ELSE DimLoop(DimStep(st, i, dims, nd, nj_src, nj_dst, ni_dst),
                 i - 1, dims, nd, nj_src, nj_dst, ni_dst)

\* lines 537-636: nk and the dimensions of the destination variable
DefineDims(dims, src, dst) ==
    LET nd == NdimsDst(Size(dims), src.nj, dst.nj)
    IN  DimLoop([isrc |-> Size(dims) - 1, nk |-> 0, dimlen |-> Fill(nd, 0), oob |-> FALSE],
                nd - 1, dims, nd, src.nj, dst.nj, dst.ni)

\* ncu_readfield(): the dimensions dims of the variable fit a layer kk of
\* ni x nj (nj = 0: ni) values out of nkk; otherwise it quits
ReadFieldOK(dims, kk, ni, nj, nkk) ==
    LET nd == Size(dims)
        hasrecorddim == \E d \in DOMAIN dims : dims[d].name = "rec"
        dimlen == [d \in DOMAIN dims |-> dims[d].len]
    IN  IF nd = 4
        THEN /\ nj # 0
             /\ hasrecorddim \/ dimlen[0] = 1
             /\ dimlen[1] = nkk \/ dimlen[1] = 1
             /\ dimlen[3] = ni /\ dimlen[2] = nj
        ELSE IF nd = 3 /\ nj > 0
        THEN /\ \/ hasrecorddim
                \/ dimlen[0] = nkk
                \/ dimlen[0] = 1 /\ (kk = 0 \/ kk = nkk - 1)
             /\ dimlen[2] = ni /\ dimlen[1] = nj
        ELSE IF nd = 3
        THEN /\ hasrecorddim \/ dimlen[0] = 1
             /\ dimlen[1] = nkk \/ dimlen[1] = 1
             /\ dimlen[2] = ni
        ELSE IF nd = 2 /\ nj > 0
        THEN /\ ~hasrecorddim
             /\ dimlen[1] = ni /\ dimlen[0] = nj
        ELSE IF nd = 2
        THEN /\ \/ hasrecorddim
                \/ dimlen[0] = nkk
                \/ dimlen[0] = 1 /\ (kk = 0 \/ kk = nkk - 1)
             /\ dimlen[1] = ni
        ELSE IF nd = 1
        THEN nj = 0 /\ ~hasrecorddim
        ELSE FALSE

\* ncu_writefield(): the same for the variable of the destination file, whose
\* dimensions have the lengths dimlen and none of which is unlimited
WriteFieldOK(dimlen, kk, ni, nj, nkk) ==
    LET nd == Size(dimlen)
    IN  IF nd = 4
        THEN /\ nj # 0
             /\ dimlen[0] = 1
             /\ dimlen[1] = nkk
             /\ dimlen[3] = ni /\ dimlen[2] = nj
        ELSE IF nd = 3 /\ nj > 0
        THEN /\ \/ dimlen[0] = nkk
                \/ dimlen[0] = 1 /\ (kk = 0 \/ kk = nkk - 1)
             /\ dimlen[2] = ni /\ dimlen[1] = nj
        ELSE IF nd = 3
        THEN /\ dimlen[0] = 1
             /\ dimlen[1] = nkk \/ dimlen[1] = 1
             /\ dimlen[2] = ni
        ELSE IF nd = 2 /\ nj > 0
        THEN dimlen[1] = ni /\ dimlen[0] = nj
        ELSE IF nd = 2
        THEN /\ \/ dimlen[0] = nkk
                \/ dimlen[0] = 1 /\ (kk = 0 \/ kk = nkk - 1)
             /\ dimlen[1] = ni
        ELSE IF nd = 1
        THEN nj = 0
        ELSE FALSE

\* the grids read for a source of n points
SrcGridsOf(n) ==
    IF \E g \in SrcGrids : Len(g) = n
    THEN {g \in SrcGrids : Len(g) = n}
    ELSE {[i \in 1 .. n |-> "mid"]}

\* the grids read for a destination of n points
DstGridsOf(n) ==
    IF \E g \in DstGrids : Len(g) = n
    THEN {g \in DstGrids : Len(g) = n}
    ELSE {[i \in 1 .. n |-> 1]}

\* the dimensions before the horizontal ones: none, the vertical one, the
\* record, or both
Leads(klens) ==
    {<< >>, <<Dim("rec", 1)>>}
        \cup {<<Dim("k", n)>> : n \in klens}
        \cup {<<Dim("rec", 1), Dim("k", n)>> : n \in klens}

\* a source file: the dimensions of the variable and the coordinates of its
\* grid file
SrcFile(dims, c) == [dims |-> Arr(dims), coord |-> c]

VARIABLES
    \* command line (parse_commandline)
    nanfill, propagatedown, skipfirstlast, transfermask, nkname_src, nkname_dst,
    verbose,
    \* what the source file and the two grid files hold
    srcfile, dstcoord,
    \* the grids as classified, the dimensions of the destination variable
    gsrc, gdst, dimlen_dst,
    \* file system: the destination under its final name and under "<dst>.tmp"
    files,
    \* position in main and exit status
    pc,
    \* grids
    srcgrid, nksrc, ydst, nkdst,
    \* layer loop
    nk, k, vsrc, vdst, vdst_last, npoint, npoint_south, npoint_north,
    npoint_dst, npoint_filled,
    \* the result p.z of the interpolation of each destination point in the
    \* current layer, and the interpolator each point was last handed to
    \* ("none" for a point that was not evaluated)
    pz, branch,
    \* history: how many times the mask was built from the source, and the last
    \* finite interpolation result of each destination point in earlier layers
    nmasktransfer, lastfinite,
    \* the result of the interpolation of the valid-layer count of each
    \* destination point while the mask is built: "nan", "neg" (finite, below
    \* zero) or "fin"; the point p it lives in is gone after line 787
    maskres,
    \* the destination grid is the source grid: destination point i lies on
    \* source point i
    samegrid,
    \* the triangulations (delaunay objects) alive now, and the most that were
    \* alive at once so far
    ntriang, maxtriang,
    \* distribute.c: the globals of lines 35-41, and the call that set them
    nslot_allocated, my_number_of_iterations, my_first_iteration,
    my_last_iteration, number_of_iterations, first_iteration, last_iteration,
    lastcall

cmdvars == <<nanfill, propagatedown, skipfirstlast, transfermask, nkname_src, nkname_dst>>
gridvars == <<srcgrid, nksrc, ydst, nkdst>>
loopvars == <<nk, k, vsrc, vdst, vdst_last, npoint, npoint_south, npoint_north,
              npoint_dst, npoint_filled, pz, branch, lastfinite>>
\* history and bookkeeping that no action of the layer loop changes
histvars == <<nmasktransfer, maskres, samegrid, ntriang, maxtriang>>
shapevars == <<verbose, srcfile, dstcoord, gsrc, gdst, dimlen_dst>>
auxvars == <<nmasktransfer, maskres, samegrid, ntriang, maxtriang, shapevars>>
distvars == <<nslot_allocated, my_number_of_iterations, my_first_iteration,
              my_last_iteration, number_of_iterations, first_iteration,
              last_iteration, lastcall>>
vars == <<distvars, cmdvars, files, pc, gridvars, loopvars, auxvars>>

\* no call of distribute_iterations() so far, or the arrays were freed
NoCall == [state |-> "none", i1 |-> 0, i2 |-> 0, nslot_used |-> 0,
           nslot_total |-> 0, myrank |-> 0, ncalls |-> 0]

\* lines 35-41: the globals as the program starts
DistInit ==
    /\ nslot_allocated = 0
    /\ my_number_of_iterations = -1
    /\ my_first_iteration = -1
    /\ my_last_iteration = -1
    /\ number_of_iterations = NULL
    /\ first_iteration = NULL
    /\ last_iteration = NULL
    /\ lastcall = NoCall

\* contents of a path
Absent == [kind |-> "absent", layers |-> {}, lastk |-> -1, last |-> NULL]
Old == [kind |-> "old", layers |-> {}, lastk |-> -1, last |-> NULL]
Created == [kind |-> "new", layers |-> {}, lastk |-> -1, last |-> NULL]

\* the files of these runs: curvilinear grids of one row, a source variable
\* without a vertical dimension or with one of several layers
PipeSrcFiles ==
    {SrcFile(lead \o <<Dim("j", 1), Dim("i", Len(g))>>, Coord(2, 1, Len(g))) :
        lead \in {<< >>} \cup {<<Dim("k", n)>> : n \in 2 .. MaxNk}, g \in SrcGrids}
PipeDstCoords == {Coord(2, 1, Len(g)) : g \in DstGrids}

Init ==
    /\ DistInit
    /\ nanfill \in BOOLEAN
    /\ propagatedown \in BOOLEAN
    /\ skipfirstlast \in BOOLEAN
    /\ transfermask \in BOOLEAN
    /\ nkname_src \in BOOLEAN
    /\ nkname_dst \in BOOLEAN
    /\ verbose = TRUE
    /\ srcfile \in PipeSrcFiles
    /\ dstcoord \in PipeDstCoords
    /\ gsrc = NoGrid /\ gdst = NoGrid /\ dimlen_dst = NULL
    /\ files \in [dst : {Absent, Old}, tmp : {Absent}]
    /\ pc = "start"
    /\ srcgrid = NULL /\ nksrc = NULL /\ ydst = NULL /\ nkdst = NULL
    /\ nk = 0 /\ k = 0
    /\ vsrc = NULL /\ vdst = NULL /\ vdst_last = NULL
    /\ npoint = 0 /\ npoint_south = 0 /\ npoint_north = 0
    /\ npoint_dst = 0 /\ npoint_filled = 0
    /\ pz = NULL /\ branch = NULL
    /\ nmasktransfer = 0 /\ lastfinite = NULL
    /\ maskres = NULL /\ samegrid = FALSE
    /\ ntriang = 0 /\ maxtriang = 0

\* quit(): report and exit(1)
quit ==
    /\ pc' = "failed"
    /\ UNCHANGED <<distvars, cmdvars, files, gridvars, loopvars, auxvars>>

\* lines 273-304: the required arguments are present, the source file opens
\* and holds the variable with at most one record
OpenSrc ==
    /\ pc = "start"
    /\ \/ /\ pc' = "src_open"
          /\ UNCHANGED <<distvars, cmdvars, files, gridvars, loopvars, auxvars>>
       \/ quit

\* lines 319-411: the source grid and, when named, its valid-layer counts
LoadSrcGrid ==
    /\ pc = "src_open"
    /\ \/ /\ \E c \in ClassifySrc(srcfile.coord, srcfile.dims) :
                /\ ~TypeRefused(verbose, c)
                /\ gsrc' = c
                /\ \E g \in SrcGridsOf(c.nij) :
                      /\ srcgrid' = Arr(g)
                      /\ IF nkname_src
                         THEN nksrc' \in SrcMasks(Len(g))
                         ELSE nksrc' = NULL
          /\ pc' = "src_grid"
          /\ UNCHANGED <<distvars, cmdvars, files, ydst, nkdst, loopvars,
                         histvars,
                         verbose, srcfile, dstcoord, gdst, dimlen_dst>>
       \/ quit

\* line 481: a destination mask named together with -t
RefuseDstMask_never == FALSE
RefuseDstMask == transfermask

\* lines 424-509: the destination grid; a destination mask together with -t
\* is refused
LoadDstGrid ==
    /\ pc = "src_grid"
    /\ \/ /\ gdst' = ClassifyDst(dstcoord)
          /\ ~TypeRefused(verbose, ClassifyDst(dstcoord))
          /\ \E g \in DstGridsOf(ClassifyDst(dstcoord).nij) :
                /\ ydst' = Arr(g)
                /\ IF nkname_dst
                   THEN /\ ~RefuseDstMask
                        /\ nkdst' \in DstMasks(Len(g))
                   ELSE nkdst' = NULL
          /\ pc' = "dst_grid"
          /\ UNCHANGED <<distvars, cmdvars, files, srcgrid, nksrc, loopvars,
                         histvars,
                         verbose, srcfile, dstcoord, gsrc, dimlen_dst>>
       \/ quit

\* lines 511-655: "<dst>.tmp" is created (clobbered), the dimensions and the
\* variable are defined; nk stays 0 or becomes the length of a dimension of
\* the source variable
CreateDst ==
    /\ pc = "dst_grid"
    /\ \/ /\ files' = [files EXCEPT !.tmp = Created]
          /\ nk' = DefineDims(srcfile.dims, gsrc, gdst).nk
          /\ dimlen_dst' = DefineDims(srcfile.dims, gsrc, gdst).dimlen
          /\ pc' = "dst_created"
          /\ UNCHANGED <<distvars, cmdvars, gridvars, k, vsrc, vdst, vdst_last,
                         npoint,
                         npoint_south, npoint_north, npoint_dst, npoint_filled,
                         pz, branch, lastfinite, histvars,
                         verbose, srcfile, dstcoord, gsrc, gdst>>
       \/ \* ncw_create() fails
          quit
       \/ \* a definition fails after the file was created
          /\ files' = [files EXCEPT !.tmp = Created]
          /\ pc' = "failed"
          /\ UNCHANGED <<distvars, cmdvars, gridvars, loopvars, auxvars>>

\* lines 657-713: both grids are projected
Project ==
    /\ pc = "dst_created"
    /\ pc' = "projected"
    /\ UNCHANGED <<distvars, cmdvars, files, gridvars, loopvars, auxvars>>

\* the source point destination point i lies on, -1 for none
OnSource(i) == IF samegrid THEN i ELSE -1

Max(a, b) == IF a >= b THEN a ELSE b

\* every point the pass over the source points hands to the triangulation of
\* hemisphere h has a finite position in it
MaskSetFinite(h) ==
    \A i \in DOMAIN srcgrid :
        \/ SkipColumn(skipfirstlast, i, Size(srcgrid))
        \/ IF h = "south" THEN finite_south(srcgrid, i) ELSE finite_north(srcgrid, i)

\* the source point whose count the interpolator of hemisphere h reproduces for
\* destination point i: with a position that is not finite in the
\* triangulation nothing is known of the interpolant
MaskVertex(i, h) == IF MaskSetFinite(h) THEN OnSource(i) ELSE -1

\* the pass over the source points reads nksrc[i] for a point it does not skip
MaskReadsNksrc ==
    \E i \in DOMAIN srcgrid : ~SkipColumn(skipfirstlast, i, Size(srcgrid))

\* lines 727-787 with the valid-layer counts m of the source points
BuildMask(m) ==
    LET st == MaskPoints(Size(srcgrid), srcgrid, m, skipfirstlast)
        \* for each destination point, the count and the class of each value
        \* the interpolation can return
        out == [i \in DOMAIN ydst |->
                  {[n |-> RoundCount(p), class |-> MaskClass(p)] :
                      p \in LpiMaskAt(PointsOf(st, Hemisphere(ydst[i])),
                                      MaskVertex(i, Hemisphere(ydst[i])))}]
    IN  /\ \E r \in [DOMAIN ydst -> UNION {out[i] : i \in DOMAIN ydst}] :
              /\ \A i \in DOMAIN ydst : r[i] \in out[i]
              /\ nkdst' = [i \in DOMAIN ydst |-> r[i].n]
              /\ maskres' = [i \in DOMAIN ydst |-> r[i].class]
        /\ branch' = [i \in DOMAIN ydst |-> Hemisphere(ydst[i])]
        /\ nmasktransfer' = nmasktransfer + 1
        /\ ntriang' = ntriang + 2
        /\ maxtriang' = Max(maxtriang, ntriang + 2)
        /\ pc' = "masked"
        /\ UNCHANGED <<distvars, cmdvars, files, srcgrid, nksrc, ydst, nk, k,
                       vsrc, vdst,
                       vdst_last, npoint, npoint_south, npoint_north, npoint_dst,
                       npoint_filled, pz, lastfinite, samegrid, shapevars>>

\* lines 715-787: the mask of the destination is built from the source.
\* Without a source mask nksrc is NULL and nksrc[i] is read through it: the
\* run is killed, or goes on with whatever the read returned.
MaskTransfer ==
    /\ pc = "projected"
    /\ transfermask /\ nkdst = NULL
    /\ IF nksrc = NULL /\ MaskReadsNksrc
       THEN \/ /\ pc' = "crashed"
               /\ UNCHANGED <<distvars, cmdvars, files, gridvars, loopvars,
                              auxvars>>
            \/ BuildMask(Fill(Size(srcgrid), 1))
       ELSE BuildMask(nksrc)

\* line 715: no mask is built
NoMaskTransfer ==
    /\ pc = "projected"
    /\ ~(transfermask /\ nkdst = NULL)
    /\ pc' = "masked"
    /\ UNCHANGED <<distvars, cmdvars, files, gridvars, loopvars, auxvars>>

\* line 796: the carry-down buffer is kept
NeedCarry_any == propagatedown
NeedCarry == nk > 1 /\ propagatedown

\* lines 794-803: the layer buffers; the carry-down buffer only for -n with
\* more than one layer; a field without vertical dimension has one layer
AllocBuffers ==
    /\ pc = "masked"
    /\ vsrc' = Fill(Size(srcgrid), 0)
    /\ vdst' = Fill(Size(ydst), 0)
    /\ vdst_last' = IF NeedCarry THEN Fill(Size(ydst), NAN) ELSE NULL
    /\ nk' = IF nk = 0 THEN 1 ELSE nk
    /\ k' = 0
    /\ lastfinite' = IF propagatedown THEN Fill(Size(ydst), NAN) ELSE NULL
    /\ pc' = "loop"
    /\ maskres' = NULL
    /\ UNCHANGED <<distvars, cmdvars, files, gridvars, npoint, npoint_south,
                   npoint_north,
                   npoint_dst, npoint_filled, pz, branch, nmasktransfer, samegrid,
                   ntriang, maxtriang, shapevars>>

\* lines 805-815: the counters of the layer start at 0 and ncu_readfield()
\* reads layer k
ReadLayer ==
    /\ pc = "loop" /\ k < nk
    /\ \/ /\ ReadFieldOK(srcfile.dims, k, gsrc.ni, gsrc.nj, nk)
          /\ vsrc' \in SrcLayers(Size(srcgrid))
          /\ npoint' = 0 /\ npoint_south' = 0 /\ npoint_north' = 0
          /\ npoint_dst' = 0 /\ npoint_filled' = 0
          /\ pc' = "read"
          /\ UNCHANGED <<distvars, cmdvars, files, gridvars, nk, k, vdst,
                         vdst_last,
                         pz, branch, lastfinite, auxvars>>
       \/ quit

\* lines 861-865: the value every destination point starts the layer with
BaseFill == IF nanfill THEN NAN ELSE 0

\* line 886: the destination point is evaluated in layer kk
Evaluated_all(i, kk) == TRUE
Evaluated_le(i, kk) == nkdst = NULL \/ kk <= nkdst[i]
Evaluated(i, kk) == nkdst = NULL \/ kk < nkdst[i]

\* lines 893-903: the value of destination point i given the result z of its
\* interpolation, and its entry of the carry-down buffer
Filled_unchecked(i, z) ==
    IF vdst_last # NULL /\ isfinite(vdst_last[i]) THEN vdst_last[i] ELSE z
Filled_nanlast(i, z) ==
    IF isfinite(z) THEN z
    ELSE IF vdst_last # NULL THEN vdst_last[i]
    ELSE BaseFill
Filled(i, z) ==
    IF isfinite(z) THEN z
    ELSE IF vdst_last # NULL /\ isfinite(vdst_last[i]) THEN vdst_last[i]
    ELSE BaseFill

\* lines 893-896: the entry of the carry-down buffer of destination point i
\* after layer kk gave it the result z
Carried_always(i, z, kk) == IF Evaluated(i, kk) THEN z ELSE vdst_last[i]
Carried(i, z, kk) ==
    IF Evaluated(i, kk) /\ isfinite(z) THEN z ELSE vdst_last[i]

CarryUsed_any(i, z) == ~isfinite(z)
CarryUsed(i, z) == ~isfinite(z) /\ vdst_last # NULL /\ isfinite(vdst_last[i])

\* lines 816-910: the source points of layer k are collected, the layer is
\* filled, and unless no source point was found each destination point is
\* interpolated in the triangulation of its hemisphere
Interpolate ==
    /\ pc = "read"
    /\ LET st == LayerPoints(Size(srcgrid), srcgrid, nksrc, skipfirstlast, vsrc, k)
       IN  /\ npoint' = st.npoint
           /\ npoint_south' = st.npoint_south
           /\ npoint_north' = st.npoint_north
           /\ IF st.npoint = 0
              THEN /\ vdst' = Fill(Size(ydst), BaseFill)
                   /\ pz' = Fill(Size(ydst), NAN)
                   /\ branch' = Fill(Size(ydst), "none")
                   /\ npoint_dst' = 0
                   /\ npoint_filled' = 0
                   /\ UNCHANGED <<vdst_last, maxtriang>>
              ELSE \E r \in [DOMAIN ydst -> {NAN} \cup FiniteVals] :
                   /\ \A i \in DOMAIN ydst :
                         r[i] \in IF Evaluated(i, k)
                                  THEN LpiFieldAt(PointsOf(st, Hemisphere(ydst[i])),
                                                  OnSource(i))
                                  ELSE {NAN}
                   /\ maxtriang' = Max(maxtriang, ntriang + 2)
                   /\ pz' = r
                   /\ branch' = [i \in DOMAIN ydst |->
                                   IF Evaluated(i, k) THEN Hemisphere(ydst[i]) ELSE "none"]
                   /\ vdst' = [i \in DOMAIN ydst |->
                                 IF Evaluated(i, k) THEN Filled(i, r[i]) ELSE BaseFill]
                   /\ vdst_last' = IF vdst_last = NULL THEN NULL
                                   ELSE [i \in DOMAIN ydst |-> Carried(i, r[i], k)]
                   /\ npoint_dst' = Cardinality({i \in DOMAIN ydst : Evaluated(i, k)})
                   /\ npoint_filled' = Cardinality({i \in DOMAIN ydst :
                                             Evaluated(i, k) /\ CarryUsed(i, r[i])})
    /\ pc' = "interp"
    /\ UNCHANGED <<distvars, cmdvars, files, gridvars, nk, k, vsrc, lastfinite,
                   nmasktransfer, maskres, samegrid, ntriang, shapevars>>

\* line 914: the path ncu_writefield() writes the layer to
WritePath_final == "dst"
WritePath == "tmp"

\* ncu_writefield(): layer kk of the file becomes v
writefield_next(f, kk, v) ==
    [kind |-> f.kind, layers |-> f.layers \cup {kk + 1}, lastk |-> kk + 1,
     last |-> v]
writefield(f, kk, v) ==
    [kind |-> f.kind, layers |-> f.layers \cup {kk}, lastk |-> kk, last |-> v]

\* line 914: layer k is written
WriteLayer ==
    /\ pc = "interp"
    /\ \/ /\ WriteFieldOK(dimlen_dst, k, gdst.ni, gdst.nj, nk)
          /\ files' = [files EXCEPT ![WritePath] = writefield(@, k, vdst)]
          /\ pc' = "written"
          /\ UNCHANGED <<distvars, cmdvars, gridvars, loopvars, auxvars>>
       \/ quit

\* lines 915-924: the log of the layer and the step to the next one; the
\* point p of the layer goes out of scope
NextLayer ==
    /\ pc = "written"
    /\ k' = k + 1
    /\ lastfinite' = IF lastfinite = NULL THEN NULL
                     ELSE [i \in DOMAIN ydst |->
                            IF isfinite(pz[i]) THEN pz[i] ELSE lastfinite[i]]
    /\ pz' = NULL
    /\ pc' = "loop"
    /\ UNCHANGED <<distvars, cmdvars, files, gridvars, nk, vsrc, vdst,
                   vdst_last, npoint,
                   npoint_south, npoint_north, npoint_dst, npoint_filled,
                   branch, auxvars>>

\* file_rename(): newname takes the contents of oldname in one step
file_rename(fs, oldname, newname) ==
    [fs EXCEPT ![newname] = fs[oldname], ![oldname] = Absent]

\* line 925: after the last layer the temporary file gets the final name
Rename ==
    /\ pc = "loop" /\ ~(k < nk)
    /\ \/ /\ files' = file_rename(files, "tmp", "dst")
          /\ pc' = "done"
          /\ UNCHANGED <<distvars, cmdvars, gridvars, loopvars, auxvars>>
       \/ quit

Next ==
    \/ OpenSrc
    \/ LoadSrcGrid
    \/ LoadDstGrid
    \/ CreateDst
    \/ Project
    \/ MaskTransfer
    \/ NoMaskTransfer
    \/ AllocBuffers
    \/ ReadLayer
    \/ Interpolate
    \/ WriteLayer
    \/ NextLayer
    \/ Rename

Spec == Init /\ [][Next]_vars

----------------------------------------------------------------------------
(* Regridding onto the source grid itself: the run from line 715 on, after  *)
(* both grids were read from the same file and variables and projected.     *)

\* the grids of these runs: where each point falls in the projections, and
\* the sign of its latitude
SameGrids ==
    {[kind |-> <<"mid", "mid", "mid", "mid">>, lat |-> <<1, 1, -1, 0>>],
     [kind |-> <<"cS", "mid", "mid", "cN">>, lat |-> <<1, 1, -1, -1>>]}

\* valid-layer counts of the grid file: growing with the index up to
\* MaxNk - 1, or 1 everywhere
SameMasks(n) ==
    {[i \in 0 .. n - 1 |-> IF i < MaxNk - 1 THEN i ELSE MaxNk - 1], Fill(n, 1)}

InitSame ==
    /\ DistInit
    /\ nanfill = FALSE
    /\ propagatedown = FALSE
    /\ skipfirstlast \in BOOLEAN
    /\ transfermask \in BOOLEAN
    /\ nkname_src \in BOOLEAN
    /\ nkname_dst \in BOOLEAN
    /\ ~(transfermask /\ nkname_dst)
    /\ files = [dst |-> Absent, tmp |-> Created]
    /\ pc = "projected"
    /\ samegrid = TRUE
    /\ verbose = TRUE
    /\ \E g \in SameGrids :
          /\ srcgrid = Arr(g.kind)
          /\ ydst = Arr(g.lat)
          /\ IF nkname_src THEN nksrc \in SameMasks(Len(g.kind)) ELSE nksrc = NULL
          /\ IF nkname_dst
             THEN nkdst \in SameMasks(Len(g.kind))
             ELSE nkdst = NULL
          /\ dstcoord = Coord(2, 1, Len(g.kind))
          /\ \E lead \in {<< >>, <<Dim("k", MaxNk - 1)>>} :
                srcfile = SrcFile(lead \o <<Dim("j", 1), Dim("i", Len(g.kind))>>,
                                  dstcoord)
    /\ gsrc = ClassifyDst(dstcoord) /\ gdst = gsrc
    /\ nk = DefineDims(srcfile.dims, gsrc, gdst).nk
    /\ dimlen_dst = DefineDims(srcfile.dims, gsrc, gdst).dimlen
    /\ k = 0
    /\ vsrc = NULL /\ vdst = NULL /\ vdst_last = NULL
    /\ npoint = 0 /\ npoint_south = 0 /\ npoint_north = 0
    /\ npoint_dst = 0 /\ npoint_filled = 0
    /\ pz = NULL /\ branch = NULL
    /\ nmasktransfer = 0 /\ lastfinite = NULL
    /\ maskres = NULL
    /\ ntriang = 0 /\ maxtriang = 0

NextSame ==
    \/ MaskTransfer
    \/ NoMaskTransfer
    \/ AllocBuffers
    \/ ReadLayer
    \/ Interpolate
    \/ WriteLayer
    \/ NextLayer
    \/ Rename

SpecSame == InitSame /\ [][NextSame]_vars

----------------------------------------------------------------------------
(* Runs over the shapes of the files: every rank of the source variable,    *)
(* structured and unstructured grids, coordinates that do and do not fit,   *)
(* with and without the log (-V 0).  No masks and no options.               *)

ShapeSrcFiles ==
    {SrcFile(lead \o horiz, c) :
        lead \in Leads(1 .. MaxNk),
        horiz \in {<<Dim("j", HLen), Dim("i", HLen)>>, <<Dim("i", HLen)>>},
        c \in {Coord(2, HLen, HLen), Coord(2, HLen, HLen + 1),
               Coord(1, HLen, HLen), Coord(1, HLen + 1, HLen),
               Coord(3, 0, 0), Coord(0, 0, 0)}}

ShapeDstCoords == {Coord(2, 1, 1), Coord(1, 1, 1), Coord(1, 1, HLen)}

InitShapes ==
    /\ DistInit
    /\ nanfill = FALSE /\ propagatedown = FALSE /\ skipfirstlast = FALSE
    /\ transfermask = FALSE /\ nkname_src = FALSE /\ nkname_dst = FALSE
    /\ verbose \in BOOLEAN
    /\ srcfile \in ShapeSrcFiles
    /\ dstcoord \in ShapeDstCoords
    /\ gsrc = NoGrid /\ gdst = NoGrid /\ dimlen_dst = NULL
    /\ files = [dst |-> Absent, tmp |-> Absent]
    /\ pc = "start"
    /\ srcgrid = NULL /\ nksrc = NULL /\ ydst = NULL /\ nkdst = NULL
    /\ nk = 0 /\ k = 0
    /\ vsrc = NULL /\ vdst = NULL /\ vdst_last = NULL
    /\ npoint = 0 /\ npoint_south = 0 /\ npoint_north = 0
    /\ npoint_dst = 0 /\ npoint_filled = 0
    /\ pz = NULL /\ branch = NULL
    /\ nmasktransfer = 0 /\ lastfinite = NULL
    /\ maskres = NULL /\ samegrid = FALSE
    /\ ntriang = 0 /\ maxtriang = 0

NextShapes ==
    \/ OpenSrc
    \/ LoadSrcGrid
    \/ LoadDstGrid
    \/ CreateDst
    \/ Project
    \/ NoMaskTransfer
    \/ AllocBuffers
    \/ ReadLayer
    \/ Interpolate
    \/ WriteLayer
    \/ NextLayer
    \/ Rename

SpecShapes == InitShapes /\ [][NextShapes]_vars

----------------------------------------------------------------------------
(* Runs of the layer loop over source grids with several points at the      *)
(* centre of a projection, with and without a mask of the source, -s and    *)
(* -t.  No mask in the destination grid file, no fill option.               *)

\* where each source point falls in the two projections
CollectGrids ==
    {<<"cS", "cS", "mid", "cN">>, <<"mid", "cN", "cN", "cS">>,
     <<"cS", "cS", "cS", "mid">>, <<"cN", "mid", "cS", "cN">>}

\* valid-layer counts of the source: growing with the index, or none at
\* point 1
CollectMasks(n) ==
    {[i \in 0 .. n - 1 |-> IF i < MaxNk THEN i + 1 ELSE MaxNk],
     [i \in 0 .. n - 1 |-> IF i = 1 THEN 0 ELSE MaxNk]}

InitCollect ==
    /\ DistInit
    /\ nanfill = FALSE
    /\ propagatedown = FALSE
    /\ skipfirstlast \in BOOLEAN
    /\ transfermask \in BOOLEAN
    /\ nkname_src \in BOOLEAN
    /\ nkname_dst = FALSE
    /\ files = [dst |-> Absent, tmp |-> Created]
    /\ pc = "projected"
    /\ samegrid = FALSE
    /\ verbose = TRUE
    /\ \E g \in CollectGrids :
          /\ srcgrid = Arr(g)
          /\ IF nkname_src THEN nksrc \in CollectMasks(Len(g)) ELSE nksrc = NULL
          /\ srcfile = SrcFile(<<Dim("k", MaxNk), Dim("j", 1), Dim("i", Len(g))>>,
                               Coord(2, 1, Len(g)))
    /\ ydst \in {Arr(g) : g \in DstGrids}
    /\ nkdst = NULL
    /\ dstcoord = Coord(2, 1, Size(ydst))
    /\ gsrc \in ClassifySrc(srcfile.coord, srcfile.dims)
    /\ gdst = ClassifyDst(dstcoord)
    /\ nk = DefineDims(srcfile.dims, gsrc, gdst).nk
    /\ dimlen_dst = DefineDims(srcfile.dims, gsrc, gdst).dimlen
    /\ k = 0
    /\ vsrc = NULL /\ vdst = NULL /\ vdst_last = NULL
    /\ npoint = 0 /\ npoint_south = 0 /\ npoint_north = 0
    /\ npoint_dst = 0 /\ npoint_filled = 0
    /\ pz = NULL /\ branch = NULL
    /\ nmasktransfer = 0 /\ lastfinite = NULL
    /\ maskres = NULL
    /\ ntriang = 0 /\ maxtriang = 0

NextCollect ==
    \/ MaskTransfer
    \/ NoMaskTransfer
    \/ AllocBuffers
    \/ ReadLayer
    \/ Interpolate
    \/ WriteLayer
    \/ NextLayer
    \/ Rename

SpecCollect == InitCollect /\ [][NextCollect]_vars

----------------------------------------------------------------------------
(* distribute.c: the iterations i1 .. i2 shared between slots *)

MaxSlots == 3
MaxIter == 4
\* calls of distribute_iterations() between two calls of distribute_free()
MaxCalls == 2
Starts == {0, 2}

\* lines 77-84: what a call writes to number_of_iterations at 0 .. nslot_total-1
Counts(niter, nu, nt) ==
    [i \in 0 .. nt - 1 |->
        IF i < niter % nu THEN niter \div nu + 1
        ELSE IF i < nu THEN niter \div nu
        ELSE 0]

\* lines 86-92: what a call writes to first_iteration and last_iteration
RECURSIVE FirstOf(_, _, _), LastOf(_, _, _)
FirstOf(i1, n, i) == IF i = 0 THEN i1 ELSE LastOf(i1, n, i - 1) + 1
LastOf(i1, n, i) == FirstOf(i1, n, i) + n[i] - 1

\* lines 61-75: the number of elements the three arrays have room for once
\* the call has allocated: malloc(nslot_total) at the first call and after
\* distribute_free(), realloc(nslot_total) if nslot_used > nslot_allocated,
\* and what they had otherwise
RoomFor(nu, nt) ==
    IF number_of_iterations = NULL THEN nt
    ELSE IF nu > nslot_allocated THEN nt
    ELSE nslot_allocated

\* the elements of an array of room for `size' after the call wrote `new' to
\* 0 .. nslot_total-1: an element the call did not write keeps what it held,
\* a write at or beyond `size' is outside the array
Store(old, new, size) ==
    [i \in 0 .. size - 1 |-> IF i \in DOMAIN new THEN new[i] ELSE old[i]]

\* the values written outside an array of room for `size'
Beyond(new, size) == {new[i] : i \in {j \in DOMAIN new : j >= size}}

\* a write outside a heap block is undefined: the block next to it (one of the
\* other two arrays) may hold the value written, or the array is as intended
Clobbered(a, vals) ==
    {a} \cup {[a EXCEPT ![j] = v] : j \in DOMAIN a, v \in vals}

\* lines 94-96: a[myrank]; outside the array the read is undefined too
ReadAt(a, new, r) ==
    IF r \in DOMAIN a THEN {a[r]} ELSE {new[r]} \cup {0}

\* lines 51-99
distribute_iterations(i1, i2, nu, nt, rank) ==
    LET niter == i2 - i1 + 1
        size == RoomFor(nu, nt)
        n == Counts(niter, nu, nt)
        f == [i \in 0 .. nt - 1 |-> FirstOf(i1, n, i)]
        l == [i \in 0 .. nt - 1 |-> LastOf(i1, n, i)]
        wild == Beyond(n, size) \cup Beyond(f, size) \cup Beyond(l, size)
    IN  /\ i2 >= i1
        /\ nu > 0 /\ nu <= nt
        /\ nslot_allocated' =
              IF number_of_iterations = NULL \/ nu > nslot_allocated
              THEN nt ELSE nslot_allocated
        /\ number_of_iterations' \in
              Clobbered(Store(number_of_iterations, n, size), wild)
        /\ first_iteration' \in Clobbered(Store(first_iteration, f, size), wild)
        /\ last_iteration' \in Clobbered(Store(last_iteration, l, size), wild)
        /\ my_first_iteration' \in ReadAt(first_iteration', f, rank)
        /\ my_last_iteration' \in ReadAt(last_iteration', l, rank)
        /\ my_number_of_iterations' \in ReadAt(number_of_iterations', n, rank)
        /\ lastcall' = [state |-> "returned", i1 |-> i1, i2 |-> i2,
                        nslot_used |-> nu, nslot_total |-> nt,
                        myrank |-> rank, ncalls |-> lastcall.ncalls + 1]
        /\ UNCHANGED <<cmdvars, files, pc, gridvars, loopvars, auxvars>>

\* lines 103-116
distribute_free ==
    /\ IF number_of_iterations = NULL
       THEN UNCHANGED distvars
       ELSE /\ number_of_iterations' = NULL
            /\ first_iteration' = NULL
            /\ last_iteration' = NULL
            /\ my_number_of_iterations' = -1
            /\ my_first_iteration' = -1
            /\ my_last_iteration' = -1
            /\ lastcall' = NoCall
            /\ UNCHANGED nslot_allocated
    /\ UNCHANGED <<cmdvars, files, pc, gridvars, loopvars, auxvars>>

\* a caller with valid arguments
Distribute ==
    /\ lastcall.ncalls < MaxCalls
    /\ \E i1 \in Starts, niter \in 1 .. MaxIter, nt \in 1 .. MaxSlots :
          \E nu \in 1 .. nt, rank \in 0 .. nt - 1 :
              distribute_iterations(i1, i1 + niter - 1, nu, nt, rank)

InitDist ==
    /\ DistInit
    /\ nanfill = FALSE /\ propagatedown = FALSE /\ skipfirstlast = FALSE
    /\ transfermask = FALSE /\ nkname_src = FALSE /\ nkname_dst = FALSE
    /\ verbose = TRUE
    /\ srcfile = SrcFile(<<Dim("j", 1), Dim("i", 1)>>, Coord(2, 1, 1))
    /\ dstcoord = Coord(2, 1, 1)
    /\ gsrc = NoGrid /\ gdst = NoGrid /\ dimlen_dst = NULL
    /\ files = [dst |-> Absent, tmp |-> Absent]
    /\ pc = "start"
    /\ srcgrid = NULL /\ nksrc = NULL /\ ydst = NULL /\ nkdst = NULL
    /\ nk = 0 /\ k = 0
    /\ vsrc = NULL /\ vdst = NULL /\ vdst_last = NULL
    /\ npoint = 0 /\ npoint_south = 0 /\ npoint_north = 0
    /\ npoint_dst = 0 /\ npoint_filled = 0
    /\ pz = NULL /\ branch = NULL
    /\ nmasktransfer = 0 /\ lastfinite = NULL
    /\ maskres = NULL /\ samegrid = FALSE
    /\ ntriang = 0 /\ maxtriang = 0

NextDist ==
    \/ Distribute
    \/ distribute_free

SpecDist == InitDist /\ [][NextDist]_vars

----------------------------------------------------------------------------
(* Vocabulary of the properties *)

\* the stages of the layer loop and after
LoopStages == {"loop", "read", "interp", "written", "done"}

\* layer k has been handed to ncu_writefield(): vdst holds what was written
LayerWritten == pc = "written"

\* destination point i got no finite result in layer k although its mask
\* admits it: its interpolation was not finite, or the layer had no source
\* point
Uncovered(i) == (nkdst = NULL \/ k < nkdst[i]) /\ pz[i] = NAN

----------------------------------------------------------------------------
\* C1: the file under the final name changes in one step only, the rename,
\* which happens after every layer 0 .. nk-1 was written to "<dst>.tmp"; in
\* every other step, failures included, it stays as it was before the run.
C1_AtomicOutput ==
    [][/\ pc' # "done" => files'.dst = files.dst
       /\ pc' = "done" /\ pc # "done" =>
              /\ files.tmp.kind = "new"
              /\ files.tmp.layers = 0 .. (nk - 1)
              /\ files'.dst = files.tmp]_vars

\* a run that failed after some but not all layers were written
C1_Witness ==
    /\ pc = "failed"
    /\ files.dst = Old
    /\ files.tmp.layers # {}
    /\ files.tmp.layers # 0 .. (nk - 1)

\* C2: without -n, an uncovered destination point of a written layer holds
\* exactly 0 when -m is absent (ZeroFill) and NaN when -m is given (NaNFill).
C2_ConstantFill ==
    LayerWritten /\ ~propagatedown =>
        \A i \in DOMAIN ydst :
            Uncovered(i) => vdst[i] = (IF nanfill THEN NAN ELSE 0)

\* a layer with a finite result at one point and NaN fill at an uncovered one
C2_Witness ==
    /\ LayerWritten /\ ~propagatedown /\ nanfill /\ npoint > 0
    /\ \E i, j \in DOMAIN ydst :
          Uncovered(i) /\ vdst[i] = NAN /\ isfinite(pz[j])

\* C3 as stated: with -n, an uncovered point without an earlier finite
\* result receives NaN.
C3_Original ==
    LayerWritten /\ propagatedown =>
        \A i \in DOMAIN ydst :
            Uncovered(i) /\ ~isfinite(lastfinite[i]) => vdst[i] = NAN

\* C3 as amended: with -n, an uncovered point without an earlier finite
\* result receives the fill value of the run: NaN with -m, 0 without.
C3_Fallback ==
    LayerWritten /\ propagatedown =>
        \A i \in DOMAIN ydst :
            Uncovered(i) /\ ~isfinite(lastfinite[i]) =>
                vdst[i] = (IF nanfill THEN NAN ELSE 0)

\* -n without -m: a point interpolated but not covered, in a layer after
\* the first, with nothing to carry down, is written as 0
C3_Witness ==
    /\ LayerWritten /\ propagatedown /\ ~nanfill /\ k > 0 /\ npoint > 0
    /\ \E i \in DOMAIN ydst :
          Uncovered(i) /\ ~isfinite(lastfinite[i]) /\ vdst[i] = 0

\* C4: with -n and nk > 1, in a layer k > 0 an uncovered point with a finite
\* result in an earlier layer is written with the latest such result, also
\* when layer k has no source point.
C4_CarryDown ==
    LayerWritten /\ propagatedown /\ nk > 1 /\ k > 0 =>
        \A i \in DOMAIN ydst :
            Uncovered(i) /\ isfinite(lastfinite[i]) => vdst[i] = lastfinite[i]

\* C5 as stated: with -n and a single layer no carry-down buffer is kept and
\* every uncovered point receives NaN, with or without -m.
C5_Original ==
    /\ propagatedown /\ pc \in LoopStages /\ nk <= 1 => vdst_last = NULL
    /\ LayerWritten /\ propagatedown /\ nk <= 1 =>
          \A i \in DOMAIN ydst : Uncovered(i) => vdst[i] = NAN

\* C5 as amended: with -n and a single layer no carry-down buffer is kept and
\* every uncovered point receives the fill value of the run: NaN with -m,
\* 0 without.
C5_SingleLayer ==
    /\ propagatedown /\ pc \in LoopStages /\ nk <= 1 => vdst_last = NULL
    /\ LayerWritten /\ propagatedown /\ nk <= 1 =>
          \A i \in DOMAIN ydst :
              Uncovered(i) => vdst[i] = (IF nanfill THEN NAN ELSE 0)

\* -n without -m on a single layer: an uncovered point next to a covered one
C5_Witness ==
    /\ LayerWritten /\ propagatedown /\ ~nanfill /\ nk = 1 /\ npoint > 0
    /\ \E i, j \in DOMAIN ydst :
          Uncovered(i) /\ vdst[i] = 0 /\ isfinite(pz[j])

\* C6: a layer without source points is written with the value of the fill
\* policy at every point its mask admits: 0 for ZeroFill, NaN for NaNFill,
\* the carried-down value for PropagateDown.
C6_EmptyLayer ==
    LayerWritten /\ npoint = 0 =>
        \A i \in DOMAIN ydst :
            Uncovered(i) =>
                IF propagatedown
                THEN isfinite(lastfinite[i]) => vdst[i] = lastfinite[i]
                ELSE vdst[i] = (IF nanfill THEN NAN ELSE 0)

\* C7: an evaluated point is handed to one interpolator, the same one in the
\* mask transfer and in every layer, and a point of latitude 0 to the north
\* one.
C7_OneBranch ==
    /\ [](branch # NULL =>
             \A i \in DOMAIN branch :
                 /\ branch[i] \in {"none", "south", "north"}
                 /\ ydst[i] = 0 /\ branch[i] # "none" => branch[i] = "north")
    /\ [][branch # NULL /\ branch' # NULL =>
             \A i \in DOMAIN branch :
                 branch[i] # "none" /\ branch'[i] # "none" => branch'[i] = branch[i]]_vars

\* a point on the equator evaluated in the second layer
C7_Witness ==
    /\ pc = "interp" /\ k = 1
    /\ \E i \in DOMAIN ydst : ydst[i] = 0 /\ branch[i] = "north" /\ isfinite(pz[i])

\* C8 as stated: latitude >= 0 goes to the north interpolator, latitude < 0
\* to the south one.
C8_Original ==
    branch # NULL =>
        \A i \in DOMAIN branch :
            branch[i] # "none" =>
                branch[i] = (IF ydst[i] >= 0 THEN "north" ELSE "south")

\* C8 as amended: latitude > 0 goes to interp_south, latitude <= 0 (0
\* included) to interp_north.
C8_BySign ==
    branch # NULL =>
        \A i \in DOMAIN branch :
            branch[i] # "none" =>
                branch[i] = (IF ydst[i] > 0 THEN "south" ELSE "north")

\* a layer in which a point north of the equator and one south of it are
\* both evaluated
C8_Witness ==
    /\ pc = "interp"
    /\ \E i, j \in DOMAIN ydst :
          /\ ydst[i] > 0 /\ branch[i] = "south"
          /\ ydst[j] < 0 /\ branch[j] = "north"

\* C9: with -t and a destination mask the run fails before "<dst>.tmp" exists
\* and before a layer is read; with -t alone the mask is built once, before
\* layer 0; it is never built twice.
C9_MaskConflict ==
    /\ transfermask /\ nkname_dst =>
          /\ pc \in {"start", "src_open", "src_grid", "failed"}
          /\ files.tmp = Absent
          /\ vsrc = NULL
          /\ nmasktransfer = 0
    /\ transfermask /\ ~nkname_dst /\ pc \in LoopStages => nmasktransfer = 1
    /\ nmasktransfer <= 1

\* the run was stopped at the destination grid by the conflicting options
C9_Witness ==
    /\ pc = "failed" /\ transfermask /\ nkname_dst
    /\ srcgrid # NULL /\ ydst = NULL

\* C10: with -t and no mask on either grid the run never reaches the
\* building of the mask.
C10_NoSourceMask ==
    transfermask /\ ~nkname_src /\ ~nkname_dst =>
        pc \notin {"masked", "crashed"} \cup LoopStages

----------------------------------------------------------------------------
\* the largest entry of an array of counts
MaxOf(a) == CHOOSE z \in {a[i] : i \in DOMAIN a} : \A i \in DOMAIN a : a[i] <= z

\* the mask of the destination was built from the valid-layer counts of the
\* source
MaskFromSource == nmasktransfer > 0 /\ nksrc # NULL

\* C11 as stated: after the mask was transferred every count of the
\* destination is an integer in 0 .. nk, nk being the number of layers of
\* the run.
C11_Original ==
    MaskFromSource /\ pc \in LoopStages =>
        \A i \in DOMAIN nkdst : nkdst[i] \in 0 .. nk

\* C11 as amended: after the mask was transferred every count of the
\* destination is an integer between 0 and the largest count of the source
\* (nothing compares it with nk), and the count of a point whose interpolated
\* value was slightly below zero is 0, not negative.
C11_Range ==
    MaskFromSource /\ pc \in {"masked"} \cup LoopStages =>
        /\ \A i \in DOMAIN nkdst : nkdst[i] \in 0 .. MaxOf(nksrc)
        /\ pc = "masked" =>
              \A i \in DOMAIN nkdst : maskres[i] = "neg" => nkdst[i] = 0

\* the mask was just built, one count was interpolated below zero and another
\* point got a count above the number of layers
C11_Witness ==
    /\ pc = "masked" /\ MaskFromSource
    /\ \E i, j \in DOMAIN nkdst :
          /\ maskres[i] = "neg" /\ nkdst[i] = 0
          /\ nkdst[j] > Max(nk, 1)

----------------------------------------------------------------------------
\* C12: a destination point whose interpolation of the source counts is not
\* finite gets the count 0; the counts stay as the transfer left them, and a
\* point with the count 0 is handed to no interpolator in any layer and keeps
\* the fill value of the layer.
C12_OutsideHull ==
    /\ [](pc = "masked" /\ nmasktransfer > 0 =>
             \A i \in DOMAIN nkdst : maskres[i] = "nan" => nkdst[i] = 0)
    /\ [][nmasktransfer > 0 => nkdst' = nkdst]_vars
    /\ [](nmasktransfer > 0 /\ pc \in {"interp", "written"} =>
             \A i \in DOMAIN nkdst :
                 nkdst[i] = 0 =>
                     branch[i] = "none" /\ pz[i] = NAN /\ vdst[i] = BaseFill)

\* the mask was just built from a source mask: one destination point was not
\* covered and has the count 0, another one was covered and has a positive
\* count
C12_Witness ==
    /\ pc = "masked" /\ MaskFromSource
    /\ \E i, j \in DOMAIN nkdst :
          /\ maskres[i] = "nan" /\ nkdst[i] = 0
          /\ maskres[j] = "fin" /\ nkdst[j] > 0

----------------------------------------------------------------------------
\* no source point handed to the triangulations of the mask lies at a pole
NoPoleInMask ==
    \A i \in DOMAIN srcgrid :
        SkipColumn(skipfirstlast, i, Size(srcgrid)) \/ srcgrid[i] = "mid"

\* C13 as stated: regridding onto the source grid itself with -t, the counts
\* of the destination are the counts of the source at every point.
C13_Original ==
    samegrid /\ MaskFromSource /\ pc = "masked" => nkdst = nksrc

\* C13 as amended: regridding onto the source grid itself with -t, the count
\* of the destination is the count of the source at every point outside the
\* first and last column skipped by -s, provided no source point handed to
\* the triangulations lies at a pole.
C13_SameMask ==
    samegrid /\ MaskFromSource /\ NoPoleInMask /\ pc \in {"masked"} \cup LoopStages =>
        \A i \in DOMAIN nkdst :
            ~SkipColumn(skipfirstlast, i, Size(srcgrid)) => nkdst[i] = nksrc[i]

\* the counts 0, 1, .., MaxNk - 1, MaxNk - 1 were transferred unchanged
C13_Witness ==
    /\ samegrid /\ MaskFromSource /\ NoPoleInMask /\ pc = "masked"
    /\ ~skipfirstlast
    /\ nkdst = nksrc
    /\ \E i, j \in DOMAIN nkdst : nkdst[i] = 0 /\ nkdst[j] = MaxNk - 1

----------------------------------------------------------------------------
\* the valid-layer counts of the source hold only the values 0 and 1
BinaryMask == nksrc # NULL /\ \A i \in DOMAIN nksrc : nksrc[i] \in {0, 1}

\* C14: with valid-layer counts that are all 0 or 1 and more than one layer,
\* every source column whose count is 1 contributes its finite values in
\* every layer, as if its count were nk: the number of source points of the
\* layer is the number of such columns outside the columns skipped by -s.
C14_BinaryMask ==
    BinaryMask /\ nk > 1 /\ pc \in {"interp", "written"} =>
        npoint = Cardinality({i \in DOMAIN srcgrid :
                                 /\ nksrc[i] = 1
                                 /\ isfinite(vsrc[i])
                                 /\ ~SkipColumn(skipfirstlast, i, Size(srcgrid))})

----------------------------------------------------------------------------
\* the source points of the current layer
LayerSets == LayerPoints(Size(srcgrid), srcgrid, nksrc, skipfirstlast, vsrc, k)

\* source point i is in the point set of the triangulation of hemisphere h
\* in the current layer
Admitted(i, h) ==
    \E j \in 1 .. Len(PointsOf(LayerSets, h)) : PointsOf(LayerSets, h)[j].i = i

\* C15 as stated: regridding onto the source grid itself, a destination
\* point whose source point is admitted to the triangulation of its
\* hemisphere in layer k is written with the value of that source point.
C15_Original ==
    samegrid /\ pc \in {"interp", "written"} =>
        \A i \in DOMAIN ydst :
            Admitted(i, Hemisphere(ydst[i])) => vdst[i] = vsrc[i]

\* C15 as amended: the same for a destination point that is evaluated in
\* layer k, that is without a mask of the destination or with k below the
\* count of the point; a point that is not evaluated keeps the fill value.
C15_SameValue ==
    samegrid /\ pc \in {"interp", "written"} =>
        \A i \in DOMAIN ydst :
            Admitted(i, Hemisphere(ydst[i])) =>
                IF Evaluated(i, k) THEN vdst[i] = vsrc[i] ELSE vdst[i] = BaseFill

\* a layer was written in which two destination points got the two
\* different values of their source points
C15_Witness ==
    /\ samegrid /\ pc = "written"
    /\ \E i, j \in DOMAIN ydst :
          /\ Admitted(i, Hemisphere(ydst[i])) /\ Evaluated(i, k)
          /\ Admitted(j, Hemisphere(ydst[j])) /\ Evaluated(j, k)
          /\ vdst[i] = vsrc[i] /\ vdst[j] = vsrc[j] /\ vdst[i] # vdst[j]

----------------------------------------------------------------------------
\* the positions of the dimension called name among those of the source
\* variable
DimsNamed(name) == {d \in DOMAIN srcfile.dims : srcfile.dims[d].name = name}

\* the length of the vertical dimension of the source variable, 1 without one
VerticalLen ==
    IF DimsNamed("k") = {} THEN 1
    ELSE srcfile.dims[CHOOSE d \in DimsNamed("k") : TRUE].len

\* both grids were taken for what they are: the source for a structured one
\* exactly if the variable has a j dimension
GridsAsMeant ==
    /\ gsrc.type # GRIDTYPE_UNDEF /\ gdst.type # GRIDTYPE_UNDEF
    /\ (gsrc.nj > 0) = (DimsNamed("j") # {})

\* C16: whatever the two topologies and the rank of the source variable, the
\* layer loop runs once per layer of the vertical dimension of the source
\* variable, once without one: every finished run has written exactly the
\* layers 0 .. VerticalLen - 1.
C16_LayerCount ==
    GridsAsMeant =>
        /\ pc \in LoopStages => nk = VerticalLen
        /\ pc = "done" => files.dst.layers = 0 .. VerticalLen - 1

----------------------------------------------------------------------------
\* the grid the rule of C17 gives for the coordinates c of a variable with the
\* dimensions dims; none when the rule says the run fails
RuleSrc(c, dims) ==
    LET ns == Size(dims)
        last == dims[ns - 1].len
    IN  IF c.ndims = 2 /\ ns >= 2 /\ c.dimlen[0] = dims[ns - 2].len /\ c.dimlen[1] = last
        THEN {Grid(GRIDTYPE_CURV, c.dimlen[1], c.dimlen[0], c.dimlen[1] * c.dimlen[0])}
        ELSE IF c.ndims = 1 /\ ns >= 2 /\ c.dimlen[0] = dims[ns - 2].len /\ c.dimlen[1] = last
        THEN {Grid(GRIDTYPE_RECT, c.dimlen[1], c.dimlen[0], c.dimlen[1] * c.dimlen[0])}
        ELSE IF c.ndims = 1 /\ c.dimlen[0] = last /\ c.dimlen[1] = last
        THEN {Grid(GRIDTYPE_VECT, last, 0, last)}
        ELSE {}

\* C17: the source grid is classified by the rule (2-D coordinates matching
\* the last two dimensions: curvilinear; 1-D coordinates matching the last two
\* dimensions: rectangular; 1-D coordinates of the length of the last
\* dimension: unstructured with nj = 0), and with any other coordinates,
\* those of a rank other than 1 or 2 included and whatever the verbosity,
\* the run fails before "<dst>.tmp" is created.
C17_Classification ==
    /\ pc \notin {"start", "src_open", "failed"} =>
          gsrc \in RuleSrc(srcfile.coord, srcfile.dims)
    /\ RuleSrc(srcfile.coord, srcfile.dims) = {} =>
          /\ pc \in {"start", "src_open", "failed"}
          /\ files.tmp = Absent

----------------------------------------------------------------------------
\* C18: never more than two triangulations are alive, and none is left alive
\* between the stages: those of the mask transfer are gone before the layer
\* loop, those of a layer before the next layer.
C18_Lifetime ==
    /\ maxtriang <= 2
    /\ pc \in {"masked"} \cup LoopStages => ntriang = 0

\* the iterations of slot r after the last call
SlotRange(r) == first_iteration[r] .. last_iteration[r]

\* C19: after distribute_iterations(i1, i2, nslot_used, nslot_total, myrank)
\* with i2 >= i1 and 0 < nslot_used <= nslot_total every slot below
\* nslot_total has its entries; the ranges of the used slots are contiguous,
\* pairwise disjoint and cover exactly i1 .. i2; number_of_iterations[r] is
\* last_iteration[r] - first_iteration[r] + 1 for every slot; the counts of
\* the used slots differ by at most 1; the unused slots have 0 iterations;
\* my_first_iteration, my_last_iteration and my_number_of_iterations are the
\* entries of myrank.
C19_Partition ==
    lastcall.state = "returned" =>
        LET used == 0 .. lastcall.nslot_used - 1
            all == 0 .. lastcall.nslot_total - 1
        IN  /\ all \subseteq DOMAIN number_of_iterations
            /\ first_iteration[0] = lastcall.i1
            /\ \A r \in used \ {0} :
                  first_iteration[r] = last_iteration[r - 1] + 1
            /\ \A r, s \in used : r # s => SlotRange(r) \cap SlotRange(s) = {}
            /\ UNION {SlotRange(r) : r \in used} = lastcall.i1 .. lastcall.i2
            /\ \A r \in all :
                  number_of_iterations[r] =
                      last_iteration[r] - first_iteration[r] + 1
            /\ \A r, s \in used :
                  number_of_iterations[r] - number_of_iterations[s] <= 1
            /\ \A r \in all \ used : number_of_iterations[r] = 0
            /\ my_first_iteration = first_iteration[lastcall.myrank]
            /\ my_last_iteration = last_iteration[lastcall.myrank]
            /\ my_number_of_iterations =
                  number_of_iterations[lastcall.myrank]

----------------------------------------------------------------------------
Hemispheres == {"south", "north"}

\* source point i passes (a), (b) and (c) in the current layer: its
\* valid-layer count, if there is a mask, is above k, its value is finite
\* and it is not in a skipped column
PassesFilters(i) ==
    /\ nksrc = NULL \/ nksrc[i] > k
    /\ isfinite(vsrc[i])
    /\ ~SkipColumn(skipfirstlast, i, Size(srcgrid))

\* the projection of source point i for hemisphere h is finite / is within
\* POLAR_EPS of the centre
FiniteIn(i, h) ==
    IF h = "south" THEN finite_south(srcgrid, i) ELSE finite_north(srcgrid, i)
PolarIn(i, h) ==
    IF h = "south" THEN polar_south(srcgrid, i) ELSE polar_north(srcgrid, i)

\* (d): source point i is near the centre of the projection of h and an
\* earlier point that passes the filters is near it too
DupRejected(i, h) ==
    /\ PolarIn(i, h)
    /\ \E j \in DOMAIN srcgrid : j < i /\ PassesFilters(j) /\ PolarIn(j, h)

\* the source points in the point set of hemisphere h
AdmittedSet(h) == {i \in DOMAIN srcgrid : Admitted(i, h)}

\* C20 as stated: in layer k a source point is in the point set of a
\* hemisphere if and only if it passes (a), (b), (c) and is not rejected by
\* the near-pole duplicate rule of that hemisphere.
C20_Original ==
    pc \in {"interp", "written"} =>
        \A h \in Hemispheres : \A i \in DOMAIN srcgrid :
            Admitted(i, h) <=> (PassesFilters(i) /\ ~DupRejected(i, h))

\* C20 as amended: in layer k a source point is in the point set of a
\* hemisphere if and only if it passes (a), (b), (c), its projection for that
\* hemisphere is finite and the near-pole duplicate rule of that hemisphere
\* does not reject it; the counters of the layer count these sets, and no
\* point failing (a), (b) or (c) is in either set.
C20_Admission ==
    pc \in {"interp", "written"} =>
        /\ \A h \in Hemispheres : \A i \in DOMAIN srcgrid :
              Admitted(i, h) <=>
                  (PassesFilters(i) /\ FiniteIn(i, h) /\ ~DupRejected(i, h))
        /\ npoint_south = Cardinality(AdmittedSet("south"))
        /\ npoint_north = Cardinality(AdmittedSet("north"))
        /\ \A i \in DOMAIN srcgrid :
              ~PassesFilters(i) =>
                  i \notin AdmittedSet("south") \cup AdmittedSet("north")

\* a layer after the first with a mask of the source and -s in which a point
\* is kept out of the south set by its projection alone, another is dropped
\* as a near-pole duplicate, another is admitted, and one fails the filters
C20_Witness ==
    /\ pc = "interp" /\ k > 0 /\ nksrc # NULL
    /\ \E i \in DOMAIN srcgrid :
          PassesFilters(i) /\ ~FiniteIn(i, "south") /\ ~DupRejected(i, "south")
    /\ \E i \in DOMAIN srcgrid, h \in Hemispheres :
          PassesFilters(i) /\ DupRejected(i, h)
    /\ \E i \in DOMAIN srcgrid : Admitted(i, "south")
    /\ \E i \in DOMAIN srcgrid : ~PassesFilters(i)

----------------------------------------------------------------------------
\* the smallest element of a non-empty set of integers
MinOf(S) == CHOOSE x \in S : \A y \in S : x <= y

\* the point sets of the mask transfer, once the mask has been built from
\* the source
MaskSets == MaskPoints(Size(srcgrid), srcgrid, nksrc, skipfirstlast)
MaskBuilt == pc = "masked" /\ nmasktransfer > 0 /\ nksrc # NULL

\* the source indices of a point set
IndicesOf(points) == {points[j].i : j \in 1 .. Len(points)}

\* of a point set of hemisphere h, the points near the centre of its projection
NearCentre(points, h) == {i \in IndicesOf(points) : PolarIn(i, h)}

\* the source points near the centre of the projection of h that pass the
\* filters of the current layer / of the mask transfer (-s only)
PolarCandidates(h) == {i \in DOMAIN srcgrid : PassesFilters(i) /\ PolarIn(i, h)}
PolarMaskCandidates(h) ==
    {i \in DOMAIN srcgrid :
        ~SkipColumn(skipfirstlast, i, Size(srcgrid)) /\ PolarIn(i, h)}

\* the rule for one point set: at most one point near the centre, and it is
\* the first of the candidates
FirstOnly(points, h, candidates) ==
    /\ Cardinality(NearCentre(points, h)) <= 1
    /\ candidates # {} => NearCentre(points, h) = {MinOf(candidates)}
    /\ candidates = {} => NearCentre(points, h) = {}

\* C21: in every layer and in the mask transfer the point set of each
\* hemisphere holds at most one point within POLAR_EPS of the centre of its
\* projection, and it is the first such point in source index order among
\* the points that pass the filters; the choice is made anew in every layer.
C21_FirstPolar ==
    /\ pc \in {"interp", "written"} =>
          \A h \in Hemispheres :
              FirstOnly(PointsOf(LayerSets, h), h, PolarCandidates(h))
    /\ MaskBuilt =>
          \A h \in Hemispheres :
              FirstOnly(PointsOf(MaskSets, h), h, PolarMaskCandidates(h))

\* a layer after the first whose south set keeps a point near the centre
\* although an earlier point near the centre, valid in layer 0, is in the
\* grid, in a run that built the mask with a point near the centre dropped
C21_Witness ==
    /\ pc = "interp" /\ k > 0 /\ nmasktransfer > 0 /\ nksrc # NULL
    /\ \E i, j \in DOMAIN srcgrid :
          /\ j < i /\ PolarIn(i, "south") /\ PolarIn(j, "south")
          /\ Admitted(i, "south")
          /\ nksrc[j] > 0 /\ nksrc[j] <= k
          /\ ~SkipColumn(skipfirstlast, j, Size(srcgrid))
          /\ j \in IndicesOf(PointsOf(MaskSets, "south"))
          /\ i \notin IndicesOf(PointsOf(MaskSets, "south"))

----------------------------------------------------------------------------
\* the steps from one stage of main to the next
StageOrder ==
    {<<"start", "src_open">>, <<"src_open", "src_grid">>,
     <<"src_grid", "dst_grid">>, <<"dst_grid", "dst_created">>,
     <<"dst_created", "projected">>, <<"projected", "masked">>,
     <<"masked", "loop">>, <<"loop", "read">>, <<"read", "interp">>,
     <<"interp", "written">>, <<"written", "loop">>, <<"loop", "done">>}

\* C22: in a run that does not fail the stages follow each other in the one
\* order load source grid, load destination grid, project, mask transfer (if
\* any), then for k = 0, 1, ..., nk-1 read layer k, interpolate it, write it,
\* then rename: the mask is built at most once and before layer 0 is read,
\* layer k is read when exactly the layers below k are written, written
\* right after its interpolation, k grows by one after each write only, and
\* the rename follows the write of layer nk-1.
C22_Ordering ==
    [][pc' \notin {"failed", "crashed"} =>
          /\ <<pc, pc'>> \in StageOrder
          /\ pc' = "projected" =>
                Size(srcgrid) = gsrc.nij /\ Size(ydst) = gdst.nij /\ ydst # NULL
          /\ nmasktransfer' # nmasktransfer =>
                /\ pc = "projected" /\ pc' = "masked"
                /\ nmasktransfer = 0 /\ nmasktransfer' = 1
                /\ files.tmp.layers = {}
          /\ pc' = "masked" =>
                /\ (transfermask /\ nkdst = NULL) <=> nmasktransfer' = 1
                /\ vsrc = NULL
          /\ pc' = "loop" /\ pc = "masked" => k' = 0
          /\ pc' = "read" =>
                k' = k /\ k < nk /\ files.tmp.layers = 0 .. (k - 1)
          /\ pc' = "interp" => k' = k /\ files'.tmp = files.tmp
          /\ pc' = "written" =>
                /\ k' = k
                /\ files'.tmp.layers = 0 .. k /\ files'.tmp.lastk = k
                /\ k \notin files.tmp.layers
          /\ pc' # "written" /\ pc' # "done" /\ pc' # "dst_created" =>
                files'.tmp = files.tmp
          /\ pc = "written" => k' = k + 1
          /\ pc # "written" /\ pc # "masked" => k' = k
          /\ pc' = "done" =>
                /\ k = nk /\ nk >= 1
                /\ files.tmp.layers = 0 .. (nk - 1)
                /\ files.tmp.lastk = nk - 1]_vars

\* a finished run of several layers that built the mask from the source
C22_Witness ==
    /\ pc = "done" /\ nk > 1 /\ nmasktransfer = 1
    /\ files.dst.layers = 0 .. (nk - 1)
    /\ k = nk

----------------------------------------------------------------------------
\* the finite result of the most recent layer up to the current one at which
\* destination point i was evaluated with a finite result, NaN without one;
\* between two layers the current layer has no result yet
LastFiniteUpTo(i) ==
    IF pc \in {"interp", "written"} /\ isfinite(pz[i]) THEN pz[i]
    ELSE lastfinite[i]

\* C23: with -n and more than one layer the carry-down buffer exists; after
\* layer k its entry of destination point i is the interpolated value of the
\* most recent layer j <= k that gave the point a finite result, NaN if there
\* is none; a layer changes the entry of a point only if it evaluated the
\* point with a finite result, to that result.
C23_CarryBuffer ==
    /\ [](pc \in LoopStages =>
             /\ propagatedown /\ nk > 1 => vdst_last # NULL
             /\ vdst_last # NULL =>
                   \A i \in DOMAIN ydst : vdst_last[i] = LastFiniteUpTo(i))
    /\ [][vdst_last # NULL /\ vdst_last' # NULL =>
             \A i \in DOMAIN ydst :
                 vdst_last'[i] # vdst_last[i] =>
                     /\ pc = "read" /\ pc' = "interp"
                     /\ Evaluated(i, k)
                     /\ isfinite(pz'[i]) /\ vdst_last'[i] = pz'[i]]_vars

\* after a layer whose result at a point was not finite the buffer still
\* holds the finite result of an earlier layer, and another point has none
C23_Witness ==
    /\ pc = "written" /\ k > 0 /\ vdst_last # NULL
    /\ \E i \in DOMAIN ydst :
          ~isfinite(pz[i]) /\ isfinite(vdst_last[i]) /\ Evaluated(i, k)
    /\ \E i \in DOMAIN ydst : ~isfinite(vdst_last[i])

----------------------------------------------------------------------------
\* line 878: the triangulation destination point i selects
Selects(i) == IF ydst[i] > 0 THEN "south" ELSE "north"
Other(h) == IF h = "south" THEN "north" ELSE "south"

\* the number of source points handed to the triangulation of hemisphere h
\* in the current layer
SetSize(h) == IF h = "south" THEN npoint_south ELSE npoint_north

\* the value the fill policy gives destination point i: the result of the
\* most recent earlier layer that was finite at the point if the carry-down
\* buffer is kept and has one, else 0 or, with -m, NaN
PolicyFill(i) ==
    IF vdst_last # NULL /\ isfinite(lastfinite[i]) THEN lastfinite[i]
    ELSE BaseFill

\* the set of hemisphere h is empty in the current layer and the other is not
OnlyOther(h) ==
    pc \in {"interp", "written"} /\ SetSize(h) = 0 /\ SetSize(Other(h)) > 0

\* C24 as stated: if the set of one hemisphere is empty and the set of the
\* other is not, every destination point selecting the empty hemisphere
\* receives the fill value of the policy, the points selecting the other are
\* interpolated, and the run does not fail.
C24_Original ==
    \A h \in Hemispheres :
        OnlyOther(h) =>
            \A i \in DOMAIN ydst :
                Selects(i) = h => vdst[i] = PolicyFill(i)

\* C24 as amended: the same for every destination point that is evaluated in
\* the layer: its result is not finite and it receives the fill value of the
\* policy; a point the destination mask excludes from the layer receives the
\* base fill; an evaluated point selecting the other hemisphere is written
\* with its result if that is finite; the layer is written.
C24_EmptySet ==
    /\ [](\A h \in Hemispheres :
             OnlyOther(h) =>
                 \A i \in DOMAIN ydst :
                     /\ Selects(i) = h /\ Evaluated(i, k) =>
                           ~isfinite(pz[i]) /\ vdst[i] = PolicyFill(i)
                     /\ ~Evaluated(i, k) => vdst[i] = BaseFill
                     /\ Selects(i) = Other(h) /\ isfinite(pz[i]) =>
                           Evaluated(i, k) /\ vdst[i] = pz[i])
    /\ [][(\E h \in Hemispheres : OnlyOther(h)) /\ pc = "read" =>
             pc' = "interp"]_vars

\* a written layer after the first with an empty north set, in which a point
\* selecting the north is filled with a carried value, a point selecting the
\* south is interpolated, and a later layer exists
C24_Witness ==
    /\ pc = "written" /\ OnlyOther("north") /\ k > 0 /\ k + 1 < nk
    /\ vdst_last # NULL
    /\ \E i \in DOMAIN ydst :
          /\ Selects(i) = "north" /\ Evaluated(i, k)
          /\ isfinite(lastfinite[i]) /\ vdst[i] = lastfinite[i]
    /\ \E i \in DOMAIN ydst : Selects(i) = "south" /\ isfinite(pz[i])

----------------------------------------------------------------------------
\* the destination points the mask of the destination admits to layer k
Unmasked == {i \in DOMAIN ydst : nkdst = NULL \/ nkdst[i] > k}

\* of these, the points whose interpolation in the current layer was not
\* finite
NeedFill == {i \in Unmasked : ~isfinite(pz[i])}

\* C25 as stated: at the end of layer k the input counter is the number of
\* source points that passed the filters, the evaluated counter is the number
\* of destination points without mask or with a count above k, and the
\* filled counter is the number of these whose interpolation was not finite,
\* under every fill policy.
C25_Original ==
    LayerWritten =>
        /\ npoint = Cardinality({i \in DOMAIN srcgrid : PassesFilters(i)})
        /\ npoint_dst = Cardinality(Unmasked)
        /\ npoint_filled = Cardinality(NeedFill)

\* C25 as amended: the input counter is the number of source points that
\* passed the filters; in a layer with an input point the evaluated counter
\* is the number of destination points without mask or with a count above k
\* and the filled counter is the number of these whose interpolation was not
\* finite and that were written with a finite value of the carry-down
\* buffer (0 without the buffer); in a layer without input point both are 0.
C25_Counters ==
    LayerWritten =>
        /\ npoint = Cardinality({i \in DOMAIN srcgrid : PassesFilters(i)})
        /\ npoint_dst = IF npoint > 0 THEN Cardinality(Unmasked) ELSE 0
        /\ npoint_filled =
              IF npoint > 0 /\ vdst_last # NULL
              THEN Cardinality({i \in NeedFill : isfinite(lastfinite[i])})
              ELSE 0

\* a written layer in which a point was filled from the buffer, another
\* needed fill and had no carried value, and a source point was filtered out
C25_Witness ==
    /\ LayerWritten /\ vdst_last # NULL /\ npoint > 0
    /\ npoint_filled = 1 /\ Cardinality(NeedFill) = 2
    /\ npoint < Size(srcgrid)

----------------------------------------------------------------------------
\* the destination points the mask of the destination keeps out of layer k
MaskedOut == {i \in DOMAIN ydst : nkdst # NULL /\ nkdst[i] <= k}

\* C26: with valid-layer counts of the destination, read from the grid file
\* or built from the source, a destination point whose count is <= k is not
\* handed to an interpolator in layer k, is written with 0, or NaN with -m,
\* and never with a carried-down value, and layer k leaves its entry of the
\* carry-down buffer as it was.
C26_Gating ==
    /\ [](pc \in {"interp", "written"} =>
             \A i \in MaskedOut :
                 /\ branch[i] = "none" /\ ~isfinite(pz[i])
                 /\ vdst[i] = BaseFill)
    /\ [][pc = "read" /\ vdst_last # NULL =>
             \A i \in MaskedOut : vdst_last'[i] = vdst_last[i]]_vars

\* a written layer with source points in which a point that is masked out
\* has a finite entry in the carry-down buffer and is written with the base
\* fill, while another point is interpolated
C26_Witness ==
    /\ pc = "written" /\ npoint > 0 /\ vdst_last # NULL
    /\ \E i \in MaskedOut :
          isfinite(vdst_last[i]) /\ vdst[i] = BaseFill /\ vdst_last[i] # BaseFill
    /\ \E i \in DOMAIN ydst : i \notin MaskedOut /\ isfinite(pz[i])

----------------------------------------------------------------------------
\* the destination grid has been read
DstLoaded ==
    pc \in {"dst_grid", "dst_created", "projected", "masked"} \cup LoopStages

\* C27: a destination grid given by two 1-D coordinates is taken for
\* rectangular exactly when their lengths differ and for unstructured, with
\* nj = 0 and ni = the length, when they are equal, whatever the source grid
\* and the dimensions of the variable are; one given by 2-D coordinates is
\* taken for curvilinear.
C27_DstType ==
    DstLoaded =>
        /\ dstcoord.ndims = 1 =>
              /\ gdst.type = GRIDTYPE_RECT <=> dstcoord.dimlen[0] # dstcoord.dimlen[1]
              /\ dstcoord.dimlen[0] = dstcoord.dimlen[1] =>
                    /\ gdst.type = GRIDTYPE_VECT
                    /\ gdst.nj = 0 /\ gdst.ni = dstcoord.dimlen[0]
                    /\ Size(ydst) = dstcoord.dimlen[0]
              /\ gdst.type = GRIDTYPE_RECT =>
                    /\ gdst.ni = dstcoord.dimlen[1] /\ gdst.nj = dstcoord.dimlen[0]
                    /\ Size(ydst) = gdst.ni * gdst.nj
        /\ dstcoord.ndims = 2 =>
              /\ gdst.type = GRIDTYPE_CURV
              /\ Size(ydst) = dstcoord.dimlen[0] * dstcoord.dimlen[1]

\* an unstructured destination under a structured source, and a rectangular
\* destination under an unstructured source
C27_Witness ==
    /\ DstLoaded
    /\ \/ gdst.type = GRIDTYPE_VECT /\ gsrc.type = GRIDTYPE_CURV /\ gdst.ni = 1
       \/ gdst.type = GRIDTYPE_RECT /\ gsrc.type = GRIDTYPE_VECT

----------------------------------------------------------------------------
\* the destination file has been defined from the grids as classified
DstDefined == pc \in {"dst_created", "projected", "masked"} \cup LoopStages

\* the rank of the destination variable
ndims_dst == NdimsDst(Size(srcfile.dims), gsrc.nj, gdst.nj)

\* C28: whatever the rank of the source variable and the types of the two
\* grids, the rank of the destination variable is within 1 .. 4, the length
\* of dimlen_dst and dimids_dst, and every read of dimids_src[isrc] in the
\* loop over the destination dimensions has isrc within 0 .. ndims_src-1.
C28_InBounds ==
    DstDefined =>
        /\ ndims_dst \in 1 .. 4
        /\ ~DefineDims(srcfile.dims, gsrc, gdst).oob

----------------------------------------------------------------------------
\* source point i passes the checks of hemisphere h in the current layer
PassesChecks(i, h) == FiniteIn(i, h) /\ ~DupRejected(i, h)

\* C29: a source point that passes the filters and is kept out of the set of
\* one hemisphere, as a near-pole duplicate or for a projection that is not
\* finite, is in the set of the other hemisphere if it passes the checks of
\* that one, and is counted once in the input counter either way; so
\* npoint_south <= npoint and npoint_north <= npoint <= nij_src in every
\* layer, and the layer is treated as empty only if no point passes the
\* filters.
C29_Independent ==
    pc \in {"interp", "written"} =>
        /\ \A h \in Hemispheres : \A i \in DOMAIN srcgrid :
              PassesFilters(i) /\ ~Admitted(i, h) /\ PassesChecks(i, Other(h)) =>
                  Admitted(i, Other(h))
        /\ npoint = Cardinality({i \in DOMAIN srcgrid : PassesFilters(i)})
        /\ npoint_south <= npoint /\ npoint_north <= npoint
        /\ npoint <= gsrc.nij
        /\ npoint = 0 <=> \A i \in DOMAIN srcgrid : ~PassesFilters(i)
        /\ npoint > 0 =>
              \A i \in DOMAIN ydst : Evaluated(i, k) => branch[i] # "none"
        /\ npoint = 0 => \A i \in DOMAIN ydst : branch[i] = "none"

\* a layer in which a point whose south projection is not finite is in the
\* north set, a point dropped from the south set as a duplicate is counted,
\* and both sets are smaller than the input counter
C29_Witness ==
    /\ pc = "interp"
    /\ \E i \in DOMAIN srcgrid :
          PassesFilters(i) /\ ~FiniteIn(i, "south") /\ Admitted(i, "north")
    /\ \E i \in DOMAIN srcgrid : PassesFilters(i) /\ DupRejected(i, "south")
    /\ npoint_south < npoint /\ npoint_north < npoint

----------------------------------------------------------------------------
\* C30: over every sequence of calls of distribute_iterations() and
\* distribute_free() with valid arguments, the indices 0 .. nslot_total-1
\* written to number_of_iterations, first_iteration and last_iteration, and
\* the index myrank read from them, are below the number of slots the arrays
\* are allocated for, also when a later call passes a larger nslot_total;
\* after distribute_free() the arrays are unallocated and the three my_*
\* values are -1.
C30_MemorySafe ==
    /\ lastcall.state = "returned" =>
          /\ lastcall.nslot_total <= Size(number_of_iterations)
          /\ lastcall.nslot_total <= Size(first_iteration)
          /\ lastcall.nslot_total <= Size(last_iteration)
          /\ lastcall.myrank < Size(number_of_iterations)
    /\ lastcall.state = "none" =>
          /\ number_of_iterations = NULL
          /\ first_iteration = NULL
          /\ last_iteration = NULL
          /\ my_number_of_iterations = -1
          /\ my_first_iteration = -1
          /\ my_last_iteration = -1

====
